---- MODULE Spec2Model ----
(***************************************************************************)
(* exif_detect_wrong_createdate.py: audit of a media archive organised in  *)
(* per-year directories.  A Python str is modelled as the sequence of its  *)
(* code points; a literal is written Text(<<"a", ".", "j", "p", "g">>) and *)
(* one character Ord("a").  Concatenation is \o.                           *)
(***************************************************************************)
EXTENDS Integers, Sequences, FiniteSets, TLC

(***************************************************************************)
(* Characters and str methods                                              *)
(***************************************************************************)

\* the printable ASCII characters from " " (32) to "_" (95), and from "a" (97)
\* to "~" (126)
Printable ==
    <<" ", "!", "\"", "#", "$", "%", "&", "'", "(", ")", "*", "+", ",", "-", ".", "/",
      "0", "1", "2", "3", "4", "5", "6", "7", "8", "9", ":", ";", "<", "=", ">", "?",
      "@", "A", "B", "C", "D", "E", "F", "G", "H", "I", "J", "K", "L", "M", "N", "O",
      "P", "Q", "R", "S", "T", "U", "V", "W", "X", "Y", "Z", "[", "\\", "]", "^", "_">>
PrintableLower ==
    <<"a", "b", "c", "d", "e", "f", "g", "h", "i", "j", "k", "l", "m", "n", "o",
      "p", "q", "r", "s", "t", "u", "v", "w", "x", "y", "z", "{", "|", "}", "~">>

OrdTable ==
    [c \in { Printable[i] : i \in 1..Len(Printable) }
              \cup { PrintableLower[i] : i \in 1..Len(PrintableLower) } |->
        IF \E i \in 1..Len(Printable) : Printable[i] = c
        THEN 31 + CHOOSE i \in 1..Len(Printable) : Printable[i] = c
        ELSE 96 + CHOOSE i \in 1..Len(PrintableLower) : PrintableLower[i] = c]

\* ord(c) for a character written as a literal
Ord(c) == IF c = "\t" THEN 9 ELSE IF c = "\n" THEN 10 ELSE OrdTable[c]

\* a str literal, written character by character
Text(literal) == [i \in 1..Len(literal) |-> Ord(literal[i])]

\* the first code point of every run "0".."9" of decimal digits (category Nd)
DecimalDigitRuns ==
    {
      48, 1632, 1776, 1984, 2406, 2534, 2662, 2790, 2918, 3046, 3174, 3302, 3430, 3558,
      3664, 3792, 3872, 4160, 4240, 6112, 6160, 6470, 6608, 6784, 6800, 6992, 7088,
      7232, 7248, 42528, 43216, 43264, 43472, 43504, 43600, 44016, 65296, 66720, 68912,
      69734, 69872, 69942, 70096, 70384, 70736, 70864, 71248, 71360, 71472, 71904,
      72016, 72784, 73040, 73120, 92768, 92864, 93008, 120782, 120792, 120802, 120812,
      120822, 123200, 123632, 125264, 130032 }

\* the ranges of the other characters str.isdigit() accepts: superscripts,
\* subscripts, circled digits and the like, which int() rejects
OtherDigitRanges ==
    {
      <<178, 179>>, <<185, 185>>, <<4969, 4977>>, <<6618, 6618>>, <<8304, 8304>>,
      <<8308, 8313>>, <<8320, 8329>>, <<9312, 9320>>, <<9332, 9340>>, <<9352, 9360>>,
      <<9450, 9450>>, <<9461, 9469>>, <<9471, 9471>>, <<10102, 10110>>,
      <<10112, 10120>>, <<10122, 10130>>, <<68160, 68163>>, <<69216, 69224>>,
      <<69714, 69722>>, <<127232, 127242>> }

\* the characters str.isspace() and the pattern \s accept
Whitespace ==
    {
      9, 10, 11, 12, 13, 28, 29, 30, 31, 32, 133, 160, 5760, 8192, 8193, 8194, 8195,
      8196, 8197, 8198, 8199, 8200, 8201, 8202, 8232, 8233, 8239, 8287, 12288 }

\* str.lower() on one character: <<first, last, step, offset>> stands for
\* first, first + step, ..., last, each lowered by adding offset; a character
\* of no rule is its own lowercase (U+0130 and U+03A3 are treated in Lower)
LowerRules ==
    {
      <<65, 90, 1, 32>>, <<192, 214, 1, 32>>, <<216, 222, 1, 32>>, <<256, 302, 2, 1>>,
      <<306, 310, 2, 1>>, <<313, 327, 2, 1>>, <<330, 374, 2, 1>>, <<376, 376, 1, -121>>,
      <<377, 381, 2, 1>>, <<385, 385, 1, 210>>, <<386, 388, 2, 1>>,
      <<390, 390, 1, 206>>, <<391, 391, 1, 1>>, <<393, 394, 1, 205>>,
      <<395, 395, 1, 1>>, <<398, 398, 1, 79>>, <<399, 399, 1, 202>>,
      <<400, 400, 1, 203>>, <<401, 401, 1, 1>>, <<403, 403, 1, 205>>,
      <<404, 404, 1, 207>>, <<406, 406, 1, 211>>, <<407, 407, 1, 209>>,
      <<408, 408, 1, 1>>, <<412, 412, 1, 211>>, <<413, 413, 1, 213>>,
      <<415, 415, 1, 214>>, <<416, 420, 2, 1>>, <<422, 422, 1, 218>>,
      <<423, 423, 1, 1>>, <<425, 425, 1, 218>>, <<428, 428, 1, 1>>,
      <<430, 430, 1, 218>>, <<431, 431, 1, 1>>, <<433, 434, 1, 217>>,
      <<435, 437, 2, 1>>, <<439, 439, 1, 219>>, <<440, 440, 1, 1>>, <<444, 444, 1, 1>>,
      <<452, 452, 1, 2>>, <<453, 453, 1, 1>>, <<455, 455, 1, 2>>, <<456, 456, 1, 1>>,
      <<458, 458, 1, 2>>, <<459, 475, 2, 1>>, <<478, 494, 2, 1>>, <<497, 497, 1, 2>>,
      <<498, 500, 2, 1>>, <<502, 502, 1, -97>>, <<503, 503, 1, -56>>,
      <<504, 542, 2, 1>>, <<544, 544, 1, -130>>, <<546, 562, 2, 1>>,
      <<570, 570, 1, 10795>>, <<571, 571, 1, 1>>, <<573, 573, 1, -163>>,
      <<574, 574, 1, 10792>>, <<577, 577, 1, 1>>, <<579, 579, 1, -195>>,
      <<580, 580, 1, 69>>, <<581, 581, 1, 71>>, <<582, 590, 2, 1>>, <<880, 882, 2, 1>>,
      <<886, 886, 1, 1>>, <<895, 895, 1, 116>>, <<902, 902, 1, 38>>,
      <<904, 906, 1, 37>>, <<908, 908, 1, 64>>, <<910, 911, 1, 63>>,
      <<913, 929, 1, 32>>, <<932, 939, 1, 32>>, <<975, 975, 1, 8>>, <<984, 1006, 2, 1>>,
      <<1012, 1012, 1, -60>>, <<1015, 1015, 1, 1>>, <<1017, 1017, 1, -7>>,
      <<1018, 1018, 1, 1>>, <<1021, 1023, 1, -130>>, <<1024, 1039, 1, 80>>,
      <<1040, 1071, 1, 32>>, <<1120, 1152, 2, 1>>, <<1162, 1214, 2, 1>>,
      <<1216, 1216, 1, 15>>, <<1217, 1229, 2, 1>>, <<1232, 1326, 2, 1>>,
      <<1329, 1366, 1, 48>>, <<4256, 4293, 1, 7264>>, <<4295, 4295, 1, 7264>>,
      <<4301, 4301, 1, 7264>>, <<5024, 5103, 1, 38864>>, <<5104, 5109, 1, 8>>,
      <<7312, 7354, 1, -3008>>, <<7357, 7359, 1, -3008>>, <<7680, 7828, 2, 1>>,
      <<7838, 7838, 1, -7615>>, <<7840, 7934, 2, 1>>, <<7944, 7951, 1, -8>>,
      <<7960, 7965, 1, -8>>, <<7976, 7983, 1, -8>>, <<7992, 7999, 1, -8>>,
      <<8008, 8013, 1, -8>>, <<8025, 8031, 2, -8>>, <<8040, 8047, 1, -8>>,
      <<8072, 8079, 1, -8>>, <<8088, 8095, 1, -8>>, <<8104, 8111, 1, -8>>,
      <<8120, 8121, 1, -8>>, <<8122, 8123, 1, -74>>, <<8124, 8124, 1, -9>>,
      <<8136, 8139, 1, -86>>, <<8140, 8140, 1, -9>>, <<8152, 8153, 1, -8>>,
      <<8154, 8155, 1, -100>>, <<8168, 8169, 1, -8>>, <<8170, 8171, 1, -112>>,
      <<8172, 8172, 1, -7>>, <<8184, 8185, 1, -128>>, <<8186, 8187, 1, -126>>,
      <<8188, 8188, 1, -9>>, <<8486, 8486, 1, -7517>>, <<8490, 8490, 1, -8383>>,
      <<8491, 8491, 1, -8262>>, <<8498, 8498, 1, 28>>, <<8544, 8559, 1, 16>>,
      <<8579, 8579, 1, 1>>, <<9398, 9423, 1, 26>>, <<11264, 11311, 1, 48>>,
      <<11360, 11360, 1, 1>>, <<11362, 11362, 1, -10743>>, <<11363, 11363, 1, -3814>>,
      <<11364, 11364, 1, -10727>>, <<11367, 11371, 2, 1>>, <<11373, 11373, 1, -10780>>,
      <<11374, 11374, 1, -10749>>, <<11375, 11375, 1, -10783>>,
      <<11376, 11376, 1, -10782>>, <<11378, 11378, 1, 1>>, <<11381, 11381, 1, 1>>,
      <<11390, 11391, 1, -10815>>, <<11392, 11490, 2, 1>>, <<11499, 11501, 2, 1>>,
      <<11506, 11506, 1, 1>>, <<42560, 42604, 2, 1>>, <<42624, 42650, 2, 1>>,
      <<42786, 42798, 2, 1>>, <<42802, 42862, 2, 1>>, <<42873, 42875, 2, 1>>,
      <<42877, 42877, 1, -35332>>, <<42878, 42886, 2, 1>>, <<42891, 42891, 1, 1>>,
      <<42893, 42893, 1, -42280>>, <<42896, 42898, 2, 1>>, <<42902, 42920, 2, 1>>,
      <<42922, 42922, 1, -42308>>, <<42923, 42923, 1, -42319>>,
      <<42924, 42924, 1, -42315>>, <<42925, 42925, 1, -42305>>,
      <<42926, 42926, 1, -42308>>, <<42928, 42928, 1, -42258>>,
      <<42929, 42929, 1, -42282>>, <<42930, 42930, 1, -42261>>,
      <<42931, 42931, 1, 928>>, <<42932, 42946, 2, 1>>, <<42948, 42948, 1, -48>>,
      <<42949, 42949, 1, -42307>>, <<42950, 42950, 1, -35384>>, <<42951, 42953, 2, 1>>,
      <<42960, 42960, 1, 1>>, <<42966, 42968, 2, 1>>, <<42997, 42997, 1, 1>>,
      <<65313, 65338, 1, 32>>, <<66560, 66599, 1, 40>>, <<66736, 66771, 1, 40>>,
      <<66928, 66964, 2, 39>>, <<66929, 66937, 2, 39>>, <<66941, 66953, 2, 39>>,
      <<66957, 66961, 2, 39>>, <<66965, 66965, 1, 39>>, <<68736, 68786, 1, 64>>,
      <<71840, 71871, 1, 32>>, <<93760, 93791, 1, 32>>, <<125184, 125217, 1, 34>> }

\* the ranges of the cased characters that are not case-ignorable
CasedRanges ==
    {
      <<65, 90>>, <<97, 122>>, <<170, 170>>, <<181, 181>>, <<186, 186>>, <<192, 214>>,
      <<216, 246>>, <<248, 442>>, <<444, 447>>, <<452, 659>>, <<661, 687>>,
      <<880, 883>>, <<886, 887>>, <<891, 893>>, <<895, 895>>, <<902, 902>>,
      <<904, 906>>, <<908, 908>>, <<910, 929>>, <<931, 1013>>, <<1015, 1153>>,
      <<1162, 1327>>, <<1329, 1366>>, <<1376, 1416>>, <<4256, 4293>>, <<4295, 4295>>,
      <<4301, 4301>>, <<4304, 4346>>, <<4349, 4351>>, <<5024, 5109>>, <<5112, 5117>>,
      <<7296, 7304>>, <<7312, 7354>>, <<7357, 7359>>, <<7424, 7467>>, <<7531, 7543>>,
      <<7545, 7578>>, <<7680, 7957>>, <<7960, 7965>>, <<7968, 8005>>, <<8008, 8013>>,
      <<8016, 8023>>, <<8025, 8025>>, <<8027, 8027>>, <<8029, 8029>>, <<8031, 8061>>,
      <<8064, 8116>>, <<8118, 8124>>, <<8126, 8126>>, <<8130, 8132>>, <<8134, 8140>>,
      <<8144, 8147>>, <<8150, 8155>>, <<8160, 8172>>, <<8178, 8180>>, <<8182, 8188>>,
      <<8450, 8450>>, <<8455, 8455>>, <<8458, 8467>>, <<8469, 8469>>, <<8473, 8477>>,
      <<8484, 8484>>, <<8486, 8486>>, <<8488, 8488>>, <<8490, 8493>>, <<8495, 8500>>,
      <<8505, 8505>>, <<8508, 8511>>, <<8517, 8521>>, <<8526, 8526>>, <<8544, 8575>>,
      <<8579, 8580>>, <<9398, 9449>>, <<11264, 11387>>, <<11390, 11492>>,
      <<11499, 11502>>, <<11506, 11507>>, <<11520, 11557>>, <<11559, 11559>>,
      <<11565, 11565>>, <<42560, 42605>>, <<42624, 42651>>, <<42786, 42863>>,
      <<42865, 42887>>, <<42891, 42894>>, <<42896, 42954>>, <<42960, 42961>>,
      <<42963, 42963>>, <<42965, 42969>>, <<42997, 42998>>, <<43002, 43002>>,
      <<43824, 43866>>, <<43872, 43880>>, <<43888, 43967>>, <<64256, 64262>>,
      <<64275, 64279>>, <<65313, 65338>>, <<65345, 65370>>, <<66560, 66639>>,
      <<66736, 66771>>, <<66776, 66811>>, <<66928, 66938>>, <<66940, 66954>>,
      <<66956, 66962>>, <<66964, 66965>>, <<66967, 66977>>, <<66979, 66993>>,
      <<66995, 67001>>, <<67003, 67004>>, <<68736, 68786>>, <<68800, 68850>>,
      <<71840, 71903>>, <<93760, 93823>>, <<119808, 119892>>, <<119894, 119964>>,
      <<119966, 119967>>, <<119970, 119970>>, <<119973, 119974>>, <<119977, 119980>>,
      <<119982, 119993>>, <<119995, 119995>>, <<119997, 120003>>, <<120005, 120069>>,
      <<120071, 120074>>, <<120077, 120084>>, <<120086, 120092>>, <<120094, 120121>>,
      <<120123, 120126>>, <<120128, 120132>>, <<120134, 120134>>, <<120138, 120144>>,
      <<120146, 120485>>, <<120488, 120512>>, <<120514, 120538>>, <<120540, 120570>>,
      <<120572, 120596>>, <<120598, 120628>>, <<120630, 120654>>, <<120656, 120686>>,
      <<120688, 120712>>, <<120714, 120744>>, <<120746, 120770>>, <<120772, 120779>>,
      <<122624, 122633>>, <<122635, 122654>>, <<125184, 125251>>, <<127280, 127305>>,
      <<127312, 127337>>, <<127344, 127369>> }

\* the ranges of the case-ignorable characters
CaseIgnorableRanges ==
    {
      <<39, 39>>, <<46, 46>>, <<58, 58>>, <<94, 94>>, <<96, 96>>, <<168, 168>>,
      <<173, 173>>, <<175, 175>>, <<180, 180>>, <<183, 184>>, <<688, 879>>,
      <<884, 885>>, <<890, 890>>, <<900, 901>>, <<903, 903>>, <<1155, 1161>>,
      <<1369, 1369>>, <<1375, 1375>>, <<1425, 1469>>, <<1471, 1471>>, <<1473, 1474>>,
      <<1476, 1477>>, <<1479, 1479>>, <<1524, 1524>>, <<1536, 1541>>, <<1552, 1562>>,
      <<1564, 1564>>, <<1600, 1600>>, <<1611, 1631>>, <<1648, 1648>>, <<1750, 1757>>,
      <<1759, 1768>>, <<1770, 1773>>, <<1807, 1807>>, <<1809, 1809>>, <<1840, 1866>>,
      <<1958, 1968>>, <<2027, 2037>>, <<2042, 2042>>, <<2045, 2045>>, <<2070, 2093>>,
      <<2137, 2139>>, <<2184, 2184>>, <<2192, 2193>>, <<2200, 2207>>, <<2249, 2306>>,
      <<2362, 2362>>, <<2364, 2364>>, <<2369, 2376>>, <<2381, 2381>>, <<2385, 2391>>,
      <<2402, 2403>>, <<2417, 2417>>, <<2433, 2433>>, <<2492, 2492>>, <<2497, 2500>>,
      <<2509, 2509>>, <<2530, 2531>>, <<2558, 2558>>, <<2561, 2562>>, <<2620, 2620>>,
      <<2625, 2626>>, <<2631, 2632>>, <<2635, 2637>>, <<2641, 2641>>, <<2672, 2673>>,
      <<2677, 2677>>, <<2689, 2690>>, <<2748, 2748>>, <<2753, 2757>>, <<2759, 2760>>,
      <<2765, 2765>>, <<2786, 2787>>, <<2810, 2815>>, <<2817, 2817>>, <<2876, 2876>>,
      <<2879, 2879>>, <<2881, 2884>>, <<2893, 2893>>, <<2901, 2902>>, <<2914, 2915>>,
      <<2946, 2946>>, <<3008, 3008>>, <<3021, 3021>>, <<3072, 3072>>, <<3076, 3076>>,
      <<3132, 3132>>, <<3134, 3136>>, <<3142, 3144>>, <<3146, 3149>>, <<3157, 3158>>,
      <<3170, 3171>>, <<3201, 3201>>, <<3260, 3260>>, <<3263, 3263>>, <<3270, 3270>>,
      <<3276, 3277>>, <<3298, 3299>>, <<3328, 3329>>, <<3387, 3388>>, <<3393, 3396>>,
      <<3405, 3405>>, <<3426, 3427>>, <<3457, 3457>>, <<3530, 3530>>, <<3538, 3540>>,
      <<3542, 3542>>, <<3633, 3633>>, <<3636, 3642>>, <<3654, 3662>>, <<3761, 3761>>,
      <<3764, 3772>>, <<3782, 3782>>, <<3784, 3789>>, <<3864, 3865>>, <<3893, 3893>>,
      <<3895, 3895>>, <<3897, 3897>>, <<3953, 3966>>, <<3968, 3972>>, <<3974, 3975>>,
      <<3981, 3991>>, <<3993, 4028>>, <<4038, 4038>>, <<4141, 4144>>, <<4146, 4151>>,
      <<4153, 4154>>, <<4157, 4158>>, <<4184, 4185>>, <<4190, 4192>>, <<4209, 4212>>,
      <<4226, 4226>>, <<4229, 4230>>, <<4237, 4237>>, <<4253, 4253>>, <<4348, 4348>>,
      <<4957, 4959>>, <<5906, 5908>>, <<5938, 5939>>, <<5970, 5971>>, <<6002, 6003>>,
      <<6068, 6069>>, <<6071, 6077>>, <<6086, 6086>>, <<6089, 6099>>, <<6103, 6103>>,
      <<6109, 6109>>, <<6155, 6159>>, <<6211, 6211>>, <<6277, 6278>>, <<6313, 6313>>,
      <<6432, 6434>>, <<6439, 6440>>, <<6450, 6450>>, <<6457, 6459>>, <<6679, 6680>>,
      <<6683, 6683>>, <<6742, 6742>>, <<6744, 6750>>, <<6752, 6752>>, <<6754, 6754>>,
      <<6757, 6764>>, <<6771, 6780>>, <<6783, 6783>>, <<6823, 6823>>, <<6832, 6862>>,
      <<6912, 6915>>, <<6964, 6964>>, <<6966, 6970>>, <<6972, 6972>>, <<6978, 6978>>,
      <<7019, 7027>>, <<7040, 7041>>, <<7074, 7077>>, <<7080, 7081>>, <<7083, 7085>>,
      <<7142, 7142>>, <<7144, 7145>>, <<7149, 7149>>, <<7151, 7153>>, <<7212, 7219>>,
      <<7222, 7223>>, <<7288, 7293>>, <<7376, 7378>>, <<7380, 7392>>, <<7394, 7400>>,
      <<7405, 7405>>, <<7412, 7412>>, <<7416, 7417>>, <<7468, 7530>>, <<7544, 7544>>,
      <<7579, 7679>>, <<8125, 8125>>, <<8127, 8129>>, <<8141, 8143>>, <<8157, 8159>>,
      <<8173, 8175>>, <<8189, 8190>>, <<8203, 8207>>, <<8216, 8217>>, <<8228, 8228>>,
      <<8231, 8231>>, <<8234, 8238>>, <<8288, 8292>>, <<8294, 8303>>, <<8305, 8305>>,
      <<8319, 8319>>, <<8336, 8348>>, <<8400, 8432>>, <<11388, 11389>>,
      <<11503, 11505>>, <<11631, 11631>>, <<11647, 11647>>, <<11744, 11775>>,
      <<11823, 11823>>, <<12293, 12293>>, <<12330, 12333>>, <<12337, 12341>>,
      <<12347, 12347>>, <<12441, 12446>>, <<12540, 12542>>, <<40981, 40981>>,
      <<42232, 42237>>, <<42508, 42508>>, <<42607, 42610>>, <<42612, 42621>>,
      <<42623, 42623>>, <<42652, 42655>>, <<42736, 42737>>, <<42752, 42785>>,
      <<42864, 42864>>, <<42888, 42890>>, <<42994, 42996>>, <<43000, 43001>>,
      <<43010, 43010>>, <<43014, 43014>>, <<43019, 43019>>, <<43045, 43046>>,
      <<43052, 43052>>, <<43204, 43205>>, <<43232, 43249>>, <<43263, 43263>>,
      <<43302, 43309>>, <<43335, 43345>>, <<43392, 43394>>, <<43443, 43443>>,
      <<43446, 43449>>, <<43452, 43453>>, <<43471, 43471>>, <<43493, 43494>>,
      <<43561, 43566>>, <<43569, 43570>>, <<43573, 43574>>, <<43587, 43587>>,
      <<43596, 43596>>, <<43632, 43632>>, <<43644, 43644>>, <<43696, 43696>>,
      <<43698, 43700>>, <<43703, 43704>>, <<43710, 43711>>, <<43713, 43713>>,
      <<43741, 43741>>, <<43756, 43757>>, <<43763, 43764>>, <<43766, 43766>>,
      <<43867, 43871>>, <<43881, 43883>>, <<44005, 44005>>, <<44008, 44008>>,
      <<44013, 44013>>, <<64286, 64286>>, <<64434, 64450>>, <<65024, 65039>>,
      <<65043, 65043>>, <<65056, 65071>>, <<65106, 65106>>, <<65109, 65109>>,
      <<65279, 65279>>, <<65287, 65287>>, <<65294, 65294>>, <<65306, 65306>>,
      <<65342, 65342>>, <<65344, 65344>>, <<65392, 65392>>, <<65438, 65439>>,
      <<65507, 65507>>, <<65529, 65531>>, <<66045, 66045>>, <<66272, 66272>>,
      <<66422, 66426>>, <<67456, 67461>>, <<67463, 67504>>, <<67506, 67514>>,
      <<68097, 68099>>, <<68101, 68102>>, <<68108, 68111>>, <<68152, 68154>>,
      <<68159, 68159>>, <<68325, 68326>>, <<68900, 68903>>, <<69291, 69292>>,
      <<69446, 69456>>, <<69506, 69509>>, <<69633, 69633>>, <<69688, 69702>>,
      <<69744, 69744>>, <<69747, 69748>>, <<69759, 69761>>, <<69811, 69814>>,
      <<69817, 69818>>, <<69821, 69821>>, <<69826, 69826>>, <<69837, 69837>>,
      <<69888, 69890>>, <<69927, 69931>>, <<69933, 69940>>, <<70003, 70003>>,
      <<70016, 70017>>, <<70070, 70078>>, <<70089, 70092>>, <<70095, 70095>>,
      <<70191, 70193>>, <<70196, 70196>>, <<70198, 70199>>, <<70206, 70206>>,
      <<70367, 70367>>, <<70371, 70378>>, <<70400, 70401>>, <<70459, 70460>>,
      <<70464, 70464>>, <<70502, 70508>>, <<70512, 70516>>, <<70712, 70719>>,
      <<70722, 70724>>, <<70726, 70726>>, <<70750, 70750>>, <<70835, 70840>>,
      <<70842, 70842>>, <<70847, 70848>>, <<70850, 70851>>, <<71090, 71093>>,
      <<71100, 71101>>, <<71103, 71104>>, <<71132, 71133>>, <<71219, 71226>>,
      <<71229, 71229>>, <<71231, 71232>>, <<71339, 71339>>, <<71341, 71341>>,
      <<71344, 71349>>, <<71351, 71351>>, <<71453, 71455>>, <<71458, 71461>>,
      <<71463, 71467>>, <<71727, 71735>>, <<71737, 71738>>, <<71995, 71996>>,
      <<71998, 71998>>, <<72003, 72003>>, <<72148, 72151>>, <<72154, 72155>>,
      <<72160, 72160>>, <<72193, 72202>>, <<72243, 72248>>, <<72251, 72254>>,
      <<72263, 72263>>, <<72273, 72278>>, <<72281, 72283>>, <<72330, 72342>>,
      <<72344, 72345>>, <<72752, 72758>>, <<72760, 72765>>, <<72767, 72767>>,
      <<72850, 72871>>, <<72874, 72880>>, <<72882, 72883>>, <<72885, 72886>>,
      <<73009, 73014>>, <<73018, 73018>>, <<73020, 73021>>, <<73023, 73029>>,
      <<73031, 73031>>, <<73104, 73105>>, <<73109, 73109>>, <<73111, 73111>>,
      <<73459, 73460>>, <<78896, 78904>>, <<92912, 92916>>, <<92976, 92982>>,
      <<92992, 92995>>, <<94031, 94031>>, <<94095, 94111>>, <<94176, 94177>>,
      <<94179, 94180>>, <<110576, 110579>>, <<110581, 110587>>, <<110589, 110590>>,
      <<113821, 113822>>, <<113824, 113827>>, <<118528, 118573>>, <<118576, 118598>>,
      <<119143, 119145>>, <<119155, 119170>>, <<119173, 119179>>, <<119210, 119213>>,
      <<119362, 119364>>, <<121344, 121398>>, <<121403, 121452>>, <<121461, 121461>>,
      <<121476, 121476>>, <<121499, 121503>>, <<121505, 121519>>, <<122880, 122886>>,
      <<122888, 122904>>, <<122907, 122913>>, <<122915, 122916>>, <<122918, 122922>>,
      <<123184, 123197>>, <<123566, 123566>>, <<123628, 123631>>, <<125136, 125142>>,
      <<125252, 125259>>, <<127995, 127999>>, <<917505, 917505>>, <<917536, 917631>>,
      <<917760, 917999>> }

InRange(c, ranges) == \E r \in ranges : c >= r[1] /\ c <= r[2]

\* str.isdecimal() on one character, which is also the pattern \d
IsDecimal(c) ==
    IF c < 128 THEN c >= 48 /\ c <= 57
    ELSE \E z \in DecimalDigitRuns : c >= z /\ c <= z + 9

\* int() of one decimal digit
DigitVal(c) ==
    IF c < 128 THEN c - 48
    ELSE c - (CHOOSE z \in DecimalDigitRuns : c >= z /\ c <= z + 9)

\* str.isdigit() on one character
IsDigit(c) == IsDecimal(c) \/ (c >= 128 /\ InRange(c, OtherDigitRanges))

\* str.isspace() on one character, which is also the pattern \s
IsSpace(c) == c \in Whitespace

\* str.lower() on one character whose lowercase is one character and does
\* not depend on its neighbours
LowerChar(c) ==
    IF c < 128 THEN (IF c >= 65 /\ c <= 90 THEN c + 32 ELSE c)
    ELSE LET rules == { r \in LowerRules :
                          c >= r[1] /\ c <= r[2] /\ (c - r[1]) % r[3] = 0 }
         IN  IF rules = {} THEN c ELSE c + (CHOOSE r \in rules : TRUE)[4]

IsCased(c) == InRange(c, CasedRanges)
IsCaseIgnorable(c) == InRange(c, CaseIgnorableRanges)

\* the capital sigma at position i ends a word: a cased character before it
\* and none after it, case-ignorable characters skipped
FinalSigma(s, i) ==
    LET before == { j \in 1..(i - 1) : ~IsCaseIgnorable(s[j]) }
        after == { j \in (i + 1)..Len(s) : ~IsCaseIgnorable(s[j]) }
    IN  /\ before # {}
        /\ IsCased(s[CHOOSE j \in before : \A k \in before : k <= j])
        /\ after = {} \/ ~IsCased(s[CHOOSE j \in after : \A k \in after : j <= k])

\* the lowercase of the character at position i, as a string
LowerAt(s, i) ==
    IF s[i] = 931 THEN (IF FinalSigma(s, i) THEN <<962>> ELSE <<963>>)
    ELSE IF s[i] = 304 THEN <<105, 775>>
    ELSE <<LowerChar(s[i])>>

\* str.lower(), from position i on
RECURSIVE LowerFrom(_, _)
LowerFrom(s, i) == IF i > Len(s) THEN <<>> ELSE LowerAt(s, i) \o LowerFrom(s, i + 1)

\* str.lower()
Lower(s) == LowerFrom(s, 1)

\* str.endswith(suffix) for one suffix
EndsWith(s, suffix) ==
    /\ Len(suffix) <= Len(s)
    /\ SubSeq(s, Len(s) - Len(suffix) + 1, Len(s)) = suffix

\* str.endswith(tuple of suffixes)
EndsWithAny(s, suffixes) == \E suffix \in suffixes : EndsWith(s, suffix)

\* str.isdigit()
IsDigitStr(s) == Len(s) > 0 /\ \A i \in 1..Len(s) : IsDigit(s[i])

\* int(): the blanks it strips at both ends
IntBlank(c) == IF c < 128 THEN c \in {9, 10, 11, 12, 13, 32} ELSE IsSpace(c)

RECURSIVE Strip(_)
Strip(s) ==
    IF Len(s) > 0 /\ IntBlank(s[1]) THEN Strip(Tail(s))
    ELSE IF Len(s) > 0 /\ IntBlank(s[Len(s)]) THEN Strip(SubSeq(s, 1, Len(s) - 1))
    ELSE s

\* int(): the text after the blanks and the sign
Unsigned(s) ==
    LET t == Strip(s)
    IN  IF Len(t) > 0 /\ t[1] \in {Ord("+"), Ord("-")} THEN Tail(t) ELSE t

\* int(s) returns: decimal digits, single underscores allowed between them
IntParses(s) ==
    LET u == Unsigned(s)
    IN  /\ Len(u) > 0
        /\ \A i \in 1..Len(u) : IsDecimal(u[i]) \/ u[i] = Ord("_")
        /\ IsDecimal(u[1]) /\ IsDecimal(u[Len(u)])
        /\ \A i \in 1..(Len(u) - 1) : ~(u[i] = Ord("_") /\ u[i + 1] = Ord("_"))

RECURSIVE DecimalValue(_)
DecimalValue(u) ==
    IF Len(u) = 0 THEN 0
    ELSE IF u[Len(u)] = Ord("_") THEN DecimalValue(SubSeq(u, 1, Len(u) - 1))
    ELSE DecimalValue(SubSeq(u, 1, Len(u) - 1)) * 10 + DigitVal(u[Len(u)])

\* int(s), where it returns
ToInt(s) ==
    LET t == Strip(s)
    IN  IF Len(t) > 0 /\ t[1] = Ord("-") THEN 0 - DecimalValue(Unsigned(s))
        ELSE DecimalValue(Unsigned(s))

(***************************************************************************)
(* Module constants                                                        *)
(***************************************************************************)

image_files_with_EXIF_metadata ==
    { Text(<<".", "j", "p", "g">>), Text(<<".", "j", "p", "e", "g">>),
      Text(<<".", "p", "n", "g">>), Text(<<".", "t", "i", "f", "f">>),
      Text(<<".", "h", "e", "i", "c">>), Text(<<".", "g", "i", "f">>) }

video_files_for_ffmpeg ==
    { Text(<<".", "m", "p", "4">>), Text(<<".", "m", "o", "v">>),
      Text(<<".", "a", "v", "i">>), Text(<<".", "m", "k", "v">>),
      Text(<<".", "w", "m", "v">>), Text(<<".", "f", "l", "v">>) }

\* a plain string, not a tuple: endswith takes it as the single suffix
ignore_files == Text(<<".", "c", "r", "2">>)

VALID_CREATION_TIMESTAMP == "VALID_CREATION_TIMESTAMP"
FAILED_TO_READ == "FAILED_TO_READ"
NO_METADATA == "NO_METADATA"
INVALID_TIMESTAMP_FORMAT == "INVALID_TIMESTAMP_FORMAT"

ProcessingResult ==
    {VALID_CREATION_TIMESTAMP, FAILED_TO_READ, NO_METADATA, INVALID_TIMESTAMP_FORMAT}

\* processing_result.name, as a str
ResultNames ==
    [r \in ProcessingResult |->
       CASE r = VALID_CREATION_TIMESTAMP ->
              Text(<<"V", "A", "L", "I", "D", "_", "C", "R", "E", "A", "T", "I", "O", "N",
                     "_", "T", "I", "M", "E", "S", "T", "A", "M", "P">>)
         [] r = FAILED_TO_READ ->
              Text(<<"F", "A", "I", "L", "E", "D", "_", "T", "O", "_", "R", "E", "A", "D">>)
         [] r = NO_METADATA ->
              Text(<<"N", "O", "_", "M", "E", "T", "A", "D", "A", "T", "A">>)
         [] r = INVALID_TIMESTAMP_FORMAT ->
              Text(<<"I", "N", "V", "A", "L", "I", "D", "_", "T", "I", "M", "E", "S", "T",
                     "A", "M", "P", "_", "F", "O", "R", "M", "A", "T">>)]

\* Python's None
None == [none |-> TRUE]

\* tag identifiers resolved from ExifTags.TAGS by the constructor
exif_DateTimeOriginal_tag == 36867
exit_DateTimeDigitized_tag == 36868
exif_DateTime_tag == 306

\* a tag the script does not look at (Make)
OtherTag == 271

(***************************************************************************)
(* datetime.strptime                                                       *)
(***************************************************************************)

\* a format is a sequence of directives ("%Y"), blanks and literal characters
EXIF_FORMAT == <<"%Y", ":", "%m", ":", "%d", " ", "%H", ":", "%M", ":", "%S">>
ISO_T_FORMAT ==
    <<"%Y", "-", "%m", "-", "%d", "T", "%H", ":", "%M", ":", "%S", ".", "%f", "Z">>
ISO_SPACE_FRACTION_FORMAT ==
    <<"%Y", "-", "%m", "-", "%d", " ", "%H", ":", "%M", ":", "%S", ".", "%f", "Z">>
ISO_SPACE_FORMAT == <<"%Y", "-", "%m", "-", "%d", " ", "%H", ":", "%M", ":", "%S">>

image_date_formats == <<EXIF_FORMAT>>
video_date_formats ==
    <<ISO_T_FORMAT, ISO_SPACE_FRACTION_FORMAT, ISO_SPACE_FORMAT, EXIF_FORMAT>>

\* the character at position j, or -1 past the end
At(s, j) == IF j >= 1 /\ j <= Len(s) THEN s[j] ELSE -1

\* the pattern \d at position j
IsDigitAt(s, j) == j >= 1 /\ j <= Len(s) /\ IsDecimal(s[j])

\* the pattern \s+ at position j: the number of blanks from there on
RECURSIVE BlankRun(_, _)
BlankRun(s, j) ==
    IF j >= 1 /\ j <= Len(s) /\ IsSpace(s[j]) THEN 1 + BlankRun(s, j + 1) ELSE 0

\* the pattern [0-9]{1,max} at position j: the number of ASCII digits from
\* there on, at most max
RECURSIVE DigitRun(_, _, _)
DigitRun(s, j, max) ==
    IF max > 0 /\ At(s, j) >= 48 /\ At(s, j) <= 57
    THEN 1 + DigitRun(s, j + 1, max - 1)
    ELSE 0

\* n, n-1, ..., 1
Downto(n) == [k \in 1..n |-> n + 1 - k]

\* a character class [lo-hi] of ASCII characters
Class(c, lo, hi) == c >= Ord(lo) /\ c <= Ord(hi)

\* the characters a literal of the four formats matches under re.IGNORECASE
Literal(item) ==
    IF item \in {"T", "Z"} THEN {Ord(item), Ord(item) + 32} ELSE {Ord(item)}

\* The lengths that the regular expression of one format item can match at
\* position j, in the order the backtracking matcher tries them.
Alternatives(item, s, j) ==
    LET a == At(s, j)
        d == IsDigitAt(s, j + 1)
        b == At(s, j + 1)
        two(P) == IF P THEN <<2>> ELSE <<>>
        one(P) == IF P THEN <<1>> ELSE <<>>
    IN  CASE item = "%Y" ->
               IF \A k \in 0..3 : IsDigitAt(s, j + k) THEN <<4>> ELSE <<>>
          [] item = "%m" ->
               two(a = Ord("1") /\ Class(b, "0", "2"))
               \o two(a = Ord("0") /\ Class(b, "1", "9"))
               \o one(Class(a, "1", "9"))
          [] item = "%d" ->
               two(a = Ord("3") /\ Class(b, "0", "1"))
               \o two(Class(a, "1", "2") /\ d)
               \o two(a = Ord("0") /\ Class(b, "1", "9"))
               \o one(Class(a, "1", "9"))
               \o two(a = Ord(" ") /\ Class(b, "1", "9"))
          [] item = "%H" ->
               two(a = Ord("2") /\ Class(b, "0", "3"))
               \o two(Class(a, "0", "1") /\ d)
               \o one(IsDigitAt(s, j))
          [] item = "%M" ->
               two(Class(a, "0", "5") /\ d)
               \o one(IsDigitAt(s, j))
          [] item = "%S" ->
               two(a = Ord("6") /\ Class(b, "0", "1"))
               \o two(Class(a, "0", "5") /\ d)
               \o one(IsDigitAt(s, j))
          [] item = "%f" -> Downto(DigitRun(s, j, 6))
          [] item = " " -> Downto(BlankRun(s, j))
          [] OTHER -> one(a \in Literal(item))

NoMatch == [ok |-> FALSE]

\* re.match of the compiled format from item i on, at position j: the first
\* match in backtracking order, with the text each directive matched.
RECURSIVE MatchFrom(_, _, _, _), TryAlternatives(_, _, _, _, _, _)
MatchFrom(format, i, s, j) ==
    IF i > Len(format) THEN [ok |-> TRUE, end |-> j, groups |-> <<>>]
    ELSE TryAlternatives(format, i, s, j, Alternatives(format[i], s, j), 1)
TryAlternatives(format, i, s, j, alts, k) ==
    IF k > Len(alts) THEN NoMatch
    ELSE LET rest == MatchFrom(format, i + 1, s, j + alts[k])
         IN  IF rest.ok
             THEN [ok |-> TRUE, end |-> rest.end,
                   groups |-> <<[item |-> format[i],
                                 text |-> SubSeq(s, j, j + alts[k] - 1)]>>
                              \o rest.groups]
             ELSE TryAlternatives(format, i, s, j, alts, k + 1)

\* the text a directive matched
Group(groups, item) ==
    LET hits == SelectSeq(groups, LAMBDA g : g.item = item) IN hits[1].text

\* "%f" is padded with zeros on the right to six digits
RECURSIVE PadMicro(_)
PadMicro(s) == IF Len(s) >= 6 THEN s ELSE PadMicro(Append(s, Ord("0")))

IsLeap(year) == year % 4 = 0 /\ (year % 100 # 0 \/ year % 400 = 0)

DaysInMonth(year, month) ==
    CASE month \in {1, 3, 5, 7, 8, 10, 12} -> 31
      [] month \in {4, 6, 9, 11} -> 30
      [] OTHER -> IF IsLeap(year) THEN 29 ELSE 28

\* the datetime constructor's range checks
ValidDateTime(t) ==
    /\ t.year >= 1 /\ t.year <= 9999
    /\ t.month >= 1 /\ t.month <= 12
    /\ t.day >= 1 /\ t.day <= DaysInMonth(t.year, t.month)
    /\ t.hour <= 23 /\ t.minute <= 59 /\ t.second <= 59

\* strptime's outcomes other than a datetime
ValueError == [raised |-> "ValueError"]
TypeError == [raised |-> "TypeError"]

\* a metadata value: a str, or a value of another type (bytes, int, tuple)
Str(chars) == [type |-> "str", chars |-> chars]
NonStr(chars) == [type |-> "bytes", chars |-> chars]

\* datetime.strptime(date_str, date_format): a datetime, or the error raised
strptime(date_str, date_format) ==
    IF date_str.type # "str" THEN TypeError
    ELSE LET s == date_str.chars
             m == MatchFrom(date_format, 1, s, 1)
         IN  IF ~m.ok THEN ValueError
             ELSE IF m.end # Len(s) + 1 THEN ValueError
             ELSE LET has(item) == \E n \in 1..Len(m.groups) : m.groups[n].item = item
                      t == [year |-> ToInt(Group(m.groups, "%Y")),
                            month |-> ToInt(Group(m.groups, "%m")),
                            day |-> ToInt(Group(m.groups, "%d")),
                            hour |-> ToInt(Group(m.groups, "%H")),
                            minute |-> ToInt(Group(m.groups, "%M")),
                            second |-> ToInt(Group(m.groups, "%S")),
                            microsecond |->
                                IF has("%f") THEN ToInt(PadMicro(Group(m.groups, "%f")))
                                ELSE 0]
                  IN  IF ValidDateTime(t) THEN t ELSE ValueError

IsRaised(x) == "raised" \in DOMAIN x
IsDateTime(x) == "year" \in DOMAIN x

(***************************************************************************)
(* MetadataProcessor.try_parse_date and get_creation_date                  *)
(***************************************************************************)

\* try_parse_date: ValueError becomes None, any other error propagates
try_parse_date(date_str, date_format) ==
    LET date_parsed == strptime(date_str, date_format)
    IN  IF date_parsed = ValueError THEN None ELSE date_parsed

\* What the decoders do with a file.  image: Image.open / img._getexif();
\* probe: ffmpeg.probe.  A dict is a function on the keys it holds.
Raises(name) == [kind |-> "raises", error |-> name]
Returns(value) == [kind |-> "returns", value |-> value]
NoneValue == [kind |-> "None"]

Return(result, timestamp) == [result |-> result, timestamp |-> timestamp]

\* the loop over the three EXIF tags: the first key present, or 0
FirstKeyPresent(exif_data) ==
    IF exif_DateTimeOriginal_tag \in DOMAIN exif_data THEN exif_DateTimeOriginal_tag
    ELSE IF exit_DateTimeDigitized_tag \in DOMAIN exif_data THEN exit_DateTimeDigitized_tag
    ELSE IF exif_DateTime_tag \in DOMAIN exif_data THEN exif_DateTime_tag
    ELSE 0

\* date_str == ""
IsEmptyStr(date_str) == date_str.type = "str" /\ date_str.chars = <<>>

\* a return before the parsing stage, or the candidate and its formats
Early(ret) == [early |-> TRUE, ret |-> ret]
Candidate(date_str, date_formats) ==
    [early |-> FALSE, date_str |-> date_str, date_formats |-> date_formats]

\* the image branch of the try block
ImageBranch(file) ==
    IF file.image.kind = "raises" THEN Early(Return(FAILED_TO_READ, None))
    ELSE IF file.image.kind = "None" THEN Early(Return(NO_METADATA, None))
    ELSE LET exif_data == file.image.value
             key == FirstKeyPresent(exif_data)
             date_str == IF key = 0 THEN Str(<<>>) ELSE exif_data[key]
         IN  IF DOMAIN exif_data = {} THEN Early(Return(NO_METADATA, None))
             ELSE IF IsEmptyStr(date_str) THEN Early(Return(NO_METADATA, None))
             ELSE Candidate(date_str, image_date_formats)

\* the video branch of the try block
VideoBranch(file) ==
    IF file.probe.kind = "raises" THEN Early(Return(FAILED_TO_READ, None))
    ELSE LET probe == file.probe.value
         IN  IF "format" \in DOMAIN probe /\ "tags" \in DOMAIN probe["format"]
             THEN LET tags == probe["format"]["tags"]
                  IN  IF "creation_time" \in DOMAIN tags
                      THEN Candidate(tags["creation_time"], video_date_formats)
                      ELSE Early(Return(NO_METADATA, None))
             ELSE Early(Return(NO_METADATA, None))

\* the try block: classification by extension and retrieval of the candidate
ExtractCandidate(file) ==
    IF EndsWithAny(Lower(file.path), image_files_with_EXIF_metadata)
    THEN ImageBranch(file)
    ELSE IF EndsWithAny(Lower(file.path), video_files_for_ffmpeg)
    THEN VideoBranch(file)
    ELSE Early(Return(FAILED_TO_READ, None))

\* mutant: the result of try_parse_date is returned without the test for None
ParseLoopUnchecked(date_str, date_formats, n) ==
    LET date_parsed == try_parse_date(date_str, date_formats[n])
    IN  IF IsRaised(date_parsed) THEN date_parsed
        ELSE Return(VALID_CREATION_TIMESTAMP, date_parsed)

\* the loop over date_formats, from format number n on
RECURSIVE ParseLoopFrom(_, _, _)
ParseLoopFrom(date_str, date_formats, n) ==
    IF n > Len(date_formats) THEN Return(INVALID_TIMESTAMP_FORMAT, None)
    ELSE LET date_parsed == try_parse_date(date_str, date_formats[n])
         IN  IF IsRaised(date_parsed) THEN date_parsed
             ELSE IF date_parsed # None
             THEN Return(VALID_CREATION_TIMESTAMP, date_parsed)
             ELSE ParseLoopFrom(date_str, date_formats, n + 1)

\* mutant: only the first format is tried
ParseLoopFirstOnly(date_str, date_formats) ==
    LET date_parsed == try_parse_date(date_str, date_formats[1])
    IN  IF IsRaised(date_parsed) THEN date_parsed
        ELSE IF date_parsed # None THEN Return(VALID_CREATION_TIMESTAMP, date_parsed)
        ELSE Return(INVALID_TIMESTAMP_FORMAT, None)

ParseLoop(date_str, date_formats) == ParseLoopFrom(date_str, date_formats, 1)

\* get_creation_date(file_path): the tuple returned, or the error raised
get_creation_date(file) ==
    LET c == ExtractCandidate(file)
    IN  IF c.early THEN c.ret ELSE ParseLoop(c.date_str, c.date_formats)


(***************************************************************************)
(* Paths, sorting and the report files                                     *)
(***************************************************************************)

\* a < b for two strings: the comparison sorted() makes
RECURSIVE StrLess(_, _)
StrLess(a, b) ==
    IF Len(b) = 0 THEN FALSE
    ELSE IF Len(a) = 0 THEN TRUE
    ELSE IF a[1] = b[1] THEN StrLess(Tail(a), Tail(b))
    ELSE a[1] < b[1]

\* sorted(S)
RECURSIVE Sorted(_)
Sorted(S) ==
    IF S = {} THEN <<>>
    ELSE LET least == CHOOSE a \in S : \A b \in S \ {a} : StrLess(a, b)
         IN  <<least>> \o Sorted(S \ {least})

\* str(n) for n >= 0
RECURSIVE NatToStr(_)
NatToStr(n) ==
    IF n < 10 THEN <<48 + n>> ELSE Append(NatToStr(n \div 10), 48 + (n % 10))

\* str(n)
IntToStr(n) == IF n < 0 THEN <<Ord("-")>> \o NatToStr(0 - n) ELSE NatToStr(n)

\* os.path.join(a, b)
Join(a, b) ==
    IF Len(b) > 0 /\ b[1] = Ord("/") THEN b
    ELSE IF Len(a) = 0 \/ a[Len(a)] = Ord("/") THEN a \o b
    ELSE a \o <<Ord("/")>> \o b

\* os.path.basename(p)
RECURSIVE Basename(_)
Basename(p) ==
    IF \E i \in 1..Len(p) : p[i] = Ord("/") THEN Basename(Tail(p)) ELSE p

\* the two report files of a year
NonMatchingSuffix ==
    Text(<<"_", "n", "o", "n", "_", "m", "a", "t", "c", "h", "i", "n", "g", "_",
           "f", "i", "l", "e", "s", ".", "t", "x", "t">>)
FailedSuffix ==
    Text(<<"_", "f", "a", "i", "l", "e", "d", "_", "t", "o", "_", "r", "e", "a", "d", "_",
           "f", "i", "l", "e", "s", ".", "t", "x", "t">>)
NonMatchingReport(y) == IntToStr(y) \o NonMatchingSuffix
FailedReport(y) == IntToStr(y) \o FailedSuffix

\* the entry of failed_to_read_files for a file
ErrorCodeText == Text(<<" ", "(", "e", "r", "r", "o", "r", " ", "c", "o", "d", "e", ":", " ">>)
FailedEntry(file_path, result) ==
    file_path \o ErrorCodeText \o ResultNames[result] \o <<Ord(")")>>

\* str.encode("utf-8") of one character that is not a surrogate
Utf8Char(c) ==
    IF c < 128 THEN <<c>>
    ELSE IF c < 2048 THEN <<192 + (c \div 64), 128 + (c % 64)>>
    ELSE IF c < 65536
    THEN <<224 + (c \div 4096), 128 + ((c \div 64) % 64), 128 + (c % 64)>>
    ELSE <<240 + (c \div 262144), 128 + ((c \div 4096) % 64),
           128 + ((c \div 64) % 64), 128 + (c % 64)>>

\* the encoder accepts the str: it holds no surrogate (UnicodeEncodeError otherwise)
Encodable(s) == \A i \in 1..Len(s) : s[i] < 55296 \/ s[i] > 57343

\* the bytes a text file opened with open(output_file, "w") gets for a str: the
\* encoding is the locale's, UTF-8
RECURSIVE Utf8(_)
Utf8(s) == IF s = <<>> THEN <<>> ELSE Utf8Char(Head(s)) \o Utf8(Tail(s))

\* a directory of the current working directory: the files it holds, each
\* with its bytes on disk
Exists(dir, name) == name \in DOMAIN dir
WithFile(dir, name, content) ==
    [n \in DOMAIN dir \cup {name} |-> IF n = name THEN content ELSE dir[n]]
WithoutFile(dir, name) == [n \in DOMAIN dir \ {name} |-> dir[n]]

\* mutant: open(output_file, "a"), which keeps what the file holds
OpenForAppending(dir, name) ==
    IF Exists(dir, name) THEN dir ELSE WithFile(dir, name, <<>>)

\* open(output_file, "w"): the file is created, or truncated
OpenForWriting(dir, name) == WithFile(dir, name, <<>>)

\* f.write(f"{file}\n"): the bytes of the line join the buffer of the file
\* object; a report of this model is smaller than that buffer (st_blksize
\* bytes, 4096 or more), so nothing reaches the disk before the file is closed
WriteLine(pending, entry) == pending \o Utf8(entry \o <<Ord("\n")>>)

\* no limit on the size of a file
Unlimited == -1

\* the end of the with block closes the file: the buffer is written after what
\* the file holds, up to the size the file system accepts for the file
Accepted(content, limit) ==
    IF limit = Unlimited \/ Len(content) <= limit THEN content
    ELSE SubSeq(content, 1, limit)
Flushed(dir, name, pending, limit) ==
    WithFile(dir, name, Accepted(dir[name] \o pending, limit))

\* the write of the buffer fails (OSError) when the file system accepts less
FlushFails(dir, name, pending, limit) ==
    limit # Unlimited /\ Len(dir[name] \o pending) > limit

\* the limits of the run that leave the same bytes on disk as the given one:
\* what the run may still be limited to after the close
SameOutcome(limits, dir, name, pending, limit) ==
    { l \in limits : Accepted(dir[name] \o pending, l)
                       = Accepted(dir[name] \o pending, limit) }

\* mutant: the stale report is left in place
KeepStale(dir, name) == dir

\* os.remove(output_file) if os.path.exists(output_file)
RemoveIfExists(dir, name) == IF Exists(dir, name) THEN WithoutFile(dir, name) ELSE dir

(***************************************************************************)
(* Inputs: metadata values, media files, the archive                       *)
(***************************************************************************)

\* the most files a year directory holds
MaxFiles == 2

\* 2020 in fullwidth digits and in superscript digits
FULLWIDTH_2020 == <<65298, 65296, 65298, 65296>>
SUPERSCRIPT_2020 == <<178, 8304, 178, 8304>>

YearTexts ==
    { Text(<<"2", "0", "1", "9">>), Text(<<"2", "0", "2", "0">>),
      Text(<<"0", "0", "0", "0">>), FULLWIDTH_2020 }
DateSeparators == { Ord("-"), Ord(":") }
MonthDayTexts ==
    { <<Text(<<"0", "7">>), Text(<<"0", "4">>)>>, <<Text(<<"0", "2">>), Text(<<"3", "0">>)>>,
      <<Text(<<"2">>), Text(<<"2", "9">>)>>, <<Text(<<"1", "2">>), Text(<<" ", "9">>)>> }
DateTimeSeparators ==
    { Text(<<"T">>), Text(<<"t">>), Text(<<" ">>), Text(<<" ", " ">>), Text(<<"\t">>) }
TimeTexts ==
    { Text(<<"1", "0", ":", "1", "5", ":", "0", "0">>),
      Text(<<"2", "3", ":", "5", "9", ":", "6", "0">>),
      Text(<<"7", ":", "5", ":", "3">>) }
TailTexts ==
    { <<>>, Text(<<".", "0", "0", "0", "0", "0", "0", "Z">>), Text(<<".", "5", "z">>),
      Text(<<".", "1", "2", "3", "4", "5", "6", "7", "Z">>), Text(<<"Z">>) }

EXIF_2019 ==
    Text(<<"2", "0", "1", "9", ":", "0", "7", ":", "0", "4", " ",
           "1", "0", ":", "1", "5", ":", "0", "0">>)
EXIF_2020 ==
    Text(<<"2", "0", "2", "0", ":", "0", "7", ":", "0", "4", " ",
           "1", "0", ":", "1", "5", ":", "0", "0">>)
ISO_2020 ==
    Text(<<"2", "0", "2", "0", "-", "0", "3", "-", "0", "1", "T", "0", "0", ":",
           "0", "0", ":", "0", "0", ".", "0", "0", "0", "0", "0", "0", "Z">>)
SLASH_DATE == Text(<<"0", "4", "/", "0", "7", "/", "2", "0", "2", "1">>)

\* strings a creation-date field may hold
TimestampTexts ==
    { y \o <<ds>> \o md[1] \o <<ds>> \o md[2] \o sep \o tm \o tail :
        y \in YearTexts, ds \in DateSeparators, md \in MonthDayTexts,
        sep \in DateTimeSeparators, tm \in TimeTexts, tail \in TailTexts }
    \cup { <<>>, SLASH_DATE }

\* values of an EXIF tag: strings, and values of another type
TagValues ==
    { Str(EXIF_2019), Str(EXIF_2020), Str(<<>>), Str(SLASH_DATE),
      NonStr(EXIF_2020), NonStr(<<>>) }

DateTags == {exif_DateTimeOriginal_tag, exit_DateTimeDigitized_tag, exif_DateTime_tag}

\* what img._getexif() may give: dicts over the three date tags and another tag
ExifDicts ==
    UNION { [tags -> TagValues] : tags \in SUBSET DateTags }
    \cup UNION { { [t \in tags \cup {OtherTag} |->
                      IF t = OtherTag THEN Str(Text(<<"M", "a", "k", "e">>)) ELSE d[t]] :
                   d \in [tags -> TagValues] } : tags \in SUBSET DateTags }
    \cup { [t \in {exif_DateTimeOriginal_tag} |-> Str(c)] : c \in TimestampTexts }

ImageBehaviours ==
    { Raises("OSError"), Raises("AttributeError"), NoneValue }
    \cup { Returns(d) : d \in ExifDicts }

\* what ffmpeg.probe() may give
ProbeDicts ==
    { <<>>,
      [k \in {"streams"} |-> <<>>],
      [k \in {"format"} |-> [j \in {"filename"} |-> <<>>]],
      [k \in {"format"} |-> [j \in {"tags"} |-> <<>>]],
      [k \in {"format"} |-> [j \in {"tags"} |-> [e \in {"encoder"} |-> Str(Text(<<"x">>))]]] }
    \cup { [k \in {"format"} |-> [j \in {"tags"} |-> [e \in {"creation_time"} |-> Str(c)]]] :
             c \in TimestampTexts }

ProbeBehaviours ==
    { Raises("ffmpeg.Error"), Raises("Exception") } \cup { Returns(d) : d \in ProbeDicts }

NoImage == Raises("OSError")
NoProbe == Raises("ffmpeg.Error")

\* y.mKv with the Kelvin sign (U+212A) for the K: its lowercase is k
KELVIN_MKV == <<Ord("y"), Ord("."), Ord("m"), 8490, Ord("v")>>
\* s.ΑΣ and i.jpİ: a final sigma, and a capital whose lowercase is two characters
SIGMA_NAME == <<Ord("s"), Ord("."), 913, 931>>
DOTTED_I_JPG == <<Ord("i"), Ord("."), Ord("j"), Ord("p"), 304>>

ImagePaths == { Text(<<"a", ".", "j", "p", "g">>), Text(<<"b", ".", "J", "P", "G">>) }
VideoPaths ==
    { Text(<<"v", ".", "m", "p", "4">>), Text(<<"V", ".", "A", "V", "I">>), KELVIN_MKV }
OtherPaths ==
    { Text(<<"d", ".", "b", "m", "p">>), Text(<<"r", ".", "c", "r", "2">>),
      Text(<<"j", "p", "g">>), Text(<<"a", ".", "j", "p", "g", ".", "t", "x", "t">>),
      SIGMA_NAME, DOTTED_I_JPG }

\* the files single-file mode is run on
SingleFiles ==
    { [path |-> p, image |-> i, probe |-> NoProbe] : p \in ImagePaths, i \in ImageBehaviours }
    \cup { [path |-> p, image |-> NoImage, probe |-> v] :
             p \in VideoPaths, v \in ProbeBehaviours }
    \cup { [path |-> p, image |-> NoImage, probe |-> NoProbe] : p \in OtherPaths }

\* the files a year directory may hold, by name
DirFiles ==
    { [name |-> Text(<<"a", ".", "m", "p", "4">>), image |-> NoImage,
       probe |-> Returns([k \in {"format"} |-> [j \in {"tags"} |->
                    [e \in {"creation_time"} |-> Str(ISO_2020)]]])],
      [name |-> Text(<<"b", ".", "J", "P", "G">>), probe |-> NoProbe,
       image |-> Returns([t \in {exit_DateTimeDigitized_tag, exif_DateTime_tag} |->
                    IF t = exit_DateTimeDigitized_tag THEN Str(EXIF_2019)
                    ELSE Str(EXIF_2020)])],
      [name |-> Text(<<"c", ".", "p", "n", "g">>), image |-> NoneValue, probe |-> NoProbe],
      [name |-> Text(<<"d", ".", "b", "m", "p">>), image |-> NoImage, probe |-> NoProbe],
      [name |-> Text(<<"e", ".", "m", "o", "v">>), image |-> NoImage,
       probe |-> Returns([k \in {"format"} |-> [j \in {"tags"} |->
                    [e \in {"creation_time"} |-> Str(SLASH_DATE)]]])],
      [name |-> Text(<<"f", ".", "C", "R", "2">>), image |-> NoImage, probe |-> NoProbe],
      [name |-> Text(<<"g", ".", "j", "p", "g">>), probe |-> NoProbe,
       image |-> Returns([t \in {exif_DateTime_tag} |-> NonStr(EXIF_2020)])] }

\* os.walk orders: sequences without repetition of at most n files
RECURSIVE Walks(_)
Walks(n) ==
    IF n = 0 THEN { <<>> }
    ELSE Walks(n - 1)
         \cup { Append(w, f) : w \in { v \in Walks(n - 1) : Len(v) = n - 1 },
                               f \in DirFiles }

DistinctNames(w) == \A i, j \in 1..Len(w) : i # j => w[i].name # w[j].name

\* an entry of the base path: a directory with the files os.walk yields, or a regular file
Directory(files) == [kind |-> "dir", files |-> files]
RegularFile == [kind |-> "file", files |-> <<>>]

BasePath == Text(<<"b", "a", "s", "e">>)
Dir2020 == Text(<<"2", "0", "2", "0">>)
Dir2021 == Text(<<"2", "0", "2", "1">>)
Dir20 == Text(<<"2", "0">>)
DirTmp == Text(<<"t", "m", "p">>)
DirMinus5 == Text(<<"-", "5">>)

\* the file of the directories other than 2020: an image taken in 2019
OldImage ==
    [name |-> Text(<<"o", ".", "j", "p", "g">>), probe |-> NoProbe,
     image |-> Returns([t \in {exif_DateTimeOriginal_tag} |-> Str(EXIF_2019)])]

\* the entry of the base path that comes with 2020, 20, tmp and -5: a
\* directory 2021, a regular file 2021, or a directory named 2020 in
\* fullwidth or in superscript digits
Companions ==
    [dir |-> <<Dir2021, Directory(<<OldImage>>)>>,
     file |-> <<Dir2021, RegularFile>>,
     fullwidth |-> <<FULLWIDTH_2020, Directory(<<OldImage>>)>>,
     superscript |-> <<SUPERSCRIPT_2020, Directory(<<OldImage>>)>>]

\* os.listdir(args.path), with what each entry is
Listings ==
    { [n \in {Dir2020, Dir20, DirTmp, DirMinus5, Companions[e][1]} |->
         IF n = Dir2020 THEN Directory(w)
         ELSE IF n \in {Dir20, DirTmp, DirMinus5} THEN Directory(<<OldImage>>)
         ELSE Companions[e][2]] :
       w \in { v \in Walks(MaxFiles) : DistinctNames(v) },
       e \in DOMAIN Companions }

\* a report left by an earlier run
StaleReport ==
    Utf8(Text(<<"b", "a", "s", "e", "/", "2", "0", "2", "0", "/", "o", "l", "d", ".", "j", "p",
                "g", "\n">>))

\* the sizes the run may be limited to for a file it writes (RLIMIT_FSIZE); the
\* limit of a run shows, and is drawn, when the run first closes a report
FileSizeLimits == {5, 20, Unlimited}

\* report files the working directory may hold before a run
WorkingDirectories ==
    { [n \in names |-> StaleReport] :
        names \in { {},
                    {NonMatchingReport(2020), FailedReport(2020),
                     NonMatchingReport(2021), FailedReport(2021)} } }

\* values of --year; 0 stands for an absent option (both are falsy)
YearOptions == {0, -5, 1999, 2020, 2021}

(***************************************************************************)
(* State                                                                   *)
(***************************************************************************)

VARIABLES
    arg_file,               \* the file at args.path (single-file mode), or NoFile
    listing,                \* the entries of args.path (directory mode)
    cwd,                    \* the report files of the working directory
    args_year,              \* args.year
    pc,                     \* where the program is
    outcome,                \* single-file mode: what get_creation_date gave
    selected_directories,   \* main: sorted(selected_directories)
    dir_i,                  \* main: position of the loop over the directories
    search_path,            \* process_directory: its arguments
    year,
    idx,                    \* process_directory: position of the walk
    matching_files,
    non_matching_files,
    failed_to_read_files,
    total_files,
    output_file,            \* the report being written or removed
    written,                \* entries written to the open report
    buffer,                 \* bytes written to the open report and not yet on disk
    size_limits,            \* the file size limits the run may still have
    passed,                 \* paths passed to get_creation_date by this call
    calls,                  \* calls of process_directory made by this run of main
    cwd_before,             \* the working directory when process_directory was entered
    completed               \* per directory, the reports its last two completed calls left

vars ==
    <<arg_file, listing, cwd, args_year, pc, outcome, selected_directories, dir_i,
      search_path, year, idx, matching_files, non_matching_files, failed_to_read_files,
      total_files, output_file, written, buffer, size_limits, passed, calls,
      cwd_before, completed>>

NoFile == [path |-> <<>>, image |-> NoImage, probe |-> NoProbe]

\* the state of one file of a directory: absent, or its content
FileState(dir, name) ==
    IF Exists(dir, name) THEN [exists |-> TRUE, content |-> dir[name]]
    ELSE [exists |-> FALSE, content |-> <<>>]

\* the two report files of a year, as they are in a directory
Reports(dir, y) ==
    [non_matching |-> FileState(dir, NonMatchingReport(y)),
     failed |-> FileState(dir, FailedReport(y))]

ProgramStart ==
    /\ args_year = 0
    /\ pc = "idle"
    /\ outcome = None
    /\ selected_directories = <<>>
    /\ dir_i = 1
    /\ search_path = <<>>
    /\ year = 0
    /\ idx = 1
    /\ matching_files = <<>>
    /\ non_matching_files = <<>>
    /\ failed_to_read_files = <<>>
    /\ total_files = 0
    /\ output_file = <<>>
    /\ written = 0
    /\ buffer = <<>>
    /\ size_limits = FileSizeLimits
    /\ passed = <<>>
    /\ calls = <<>>
    /\ cwd_before = cwd
    /\ completed = <<>>

\* directory mode: args.path is a directory of year directories
Init ==
    /\ arg_file = NoFile
    /\ listing \in Listings
    /\ cwd \in WorkingDirectories
    /\ ProgramStart

\* single-file mode: args.path is a file
SingleFileInit ==
    /\ arg_file \in SingleFiles
    /\ listing = <<>>
    /\ cwd = <<>>
    /\ ProgramStart

(***************************************************************************)
(* main                                                                    *)
(***************************************************************************)

\* the else branch: the entries of args.path that pass the name test
YearNamed(names) == { n \in names : IsDigitStr(n) /\ Len(n) = 4 }

\* selected_directories for the year option y
SelectDirectories(y) ==
    IF y # 0
    THEN IF Exists(listing, IntToStr(y)) THEN { Join(BasePath, IntToStr(y)) } ELSE {}
    ELSE { Join(BasePath, dirname) : dirname \in YearNamed(DOMAIN listing) }

\* main, single-file mode: os.path.isfile(args.path)
SingleFileMode ==
    /\ pc = "idle"
    /\ arg_file # NoFile
    /\ outcome' = get_creation_date(arg_file)
    /\ pc' = IF IsRaised(outcome') THEN "crashed" ELSE "finished"
    /\ UNCHANGED <<arg_file, listing, cwd, args_year, selected_directories, dir_i,
                   search_path, year, idx, matching_files, non_matching_files,
                   failed_to_read_files, total_files, output_file, written, buffer,
                   size_limits, passed, calls, cwd_before, completed>>

\* main, directory mode, up to the loop over the directories; the program may
\* be run again with the same arguments once it has finished
Main(y) ==
    /\ arg_file = NoFile
    /\ pc = "idle" \/ (pc = "finished" /\ y = args_year)
    /\ args_year' = y
    /\ selected_directories' = Sorted(SelectDirectories(y))
    /\ dir_i' = 1
    /\ calls' = <<>>
    /\ pc' = IF y # 0 /\ ~Exists(listing, IntToStr(y)) THEN "finished" ELSE "loop"
    /\ size_limits' = FileSizeLimits
    /\ UNCHANGED <<arg_file, listing, cwd, outcome, search_path, year, idx, matching_files,
                   non_matching_files, failed_to_read_files, total_files, output_file,
                   written, buffer, passed, cwd_before, completed>>

\* the loop over the directories: int(dirname), which may raise ValueError and
\* end main, and the call of process_directory, up to its walk
EnterDirectory ==
    /\ pc = "loop"
    /\ dir_i <= Len(selected_directories)
    /\ LET full_dir_path == selected_directories[dir_i]
           dirname == Basename(full_dir_path)
       IN  IF IntParses(dirname)
           THEN /\ search_path' = full_dir_path
                /\ year' = ToInt(dirname)
                /\ calls' = Append(calls, [search_path |-> full_dir_path,
                                           year |-> ToInt(dirname)])
                /\ dir_i' = dir_i + 1
                /\ matching_files' = <<>>
                /\ non_matching_files' = <<>>
                /\ failed_to_read_files' = <<>>
                /\ total_files' = 0
                /\ idx' = 1
                /\ passed' = <<>>
                /\ cwd_before' = cwd
                /\ pc' = "walk"
           ELSE /\ pc' = "crashed"
                /\ UNCHANGED <<search_path, year, calls, dir_i, matching_files,
                               non_matching_files, failed_to_read_files, total_files, idx,
                               passed, cwd_before>>
    /\ UNCHANGED <<arg_file, listing, cwd, args_year, outcome, selected_directories,
                   output_file, written, buffer, size_limits, completed>>

\* the end of the loop
Finish ==
    /\ pc = "loop"
    /\ dir_i > Len(selected_directories)
    /\ pc' = "finished"
    /\ UNCHANGED <<arg_file, listing, cwd, args_year, outcome, selected_directories, dir_i,
                   search_path, year, idx, matching_files, non_matching_files,
                   failed_to_read_files, total_files, output_file, written, buffer,
                   size_limits, passed, calls, cwd_before, completed>>

(***************************************************************************)
(* MetadataProcessor.process_directory                                     *)
(***************************************************************************)

\* the files os.walk(path) yields, in its order: none unless path is a directory
WalkOf(path) ==
    LET dirname == Basename(path)
    IN  IF Exists(listing, dirname) /\ listing[dirname].kind = "dir"
        THEN [k \in 1..Len(listing[dirname].files) |->
                [path |-> Join(path, listing[dirname].files[k].name),
                 image |-> listing[dirname].files[k].image,
                 probe |-> listing[dirname].files[k].probe]]
        ELSE <<>>

\* mutant: the extension is compared without lower()
IgnoredCaseSensitive(file_path) == EndsWith(file_path, ignore_files)

\* file_path.lower().endswith(ignore_files)
Ignored(file_path) == EndsWith(Lower(file_path), ignore_files)

\* mutant: NO_METADATA falls through to the failures
BucketWithoutNoMetadata(processing_result, creation_date, target_year) ==
    IF processing_result = VALID_CREATION_TIMESTAMP /\ creation_date.year = target_year
    THEN "matching"
    ELSE IF processing_result = VALID_CREATION_TIMESTAMP /\ creation_date.year # target_year
    THEN "non_matching"
    ELSE "failed"

\* the bucket the if/elif chain picks for a result
Bucket(processing_result, creation_date, target_year) ==
    IF processing_result = VALID_CREATION_TIMESTAMP /\ creation_date.year = target_year
    THEN "matching"
    ELSE IF processing_result = VALID_CREATION_TIMESTAMP /\ creation_date.year # target_year
    THEN "non_matching"
    ELSE IF processing_result = NO_METADATA THEN "non_matching"
    ELSE "failed"

\* the buckets after the body of the loop has run for a returned result
Appended(file_path, r) ==
    LET bucket == Bucket(r.result, r.timestamp, year)
    IN  /\ matching_files' =
             IF bucket = "matching" THEN Append(matching_files, file_path)
             ELSE matching_files
        /\ non_matching_files' =
             IF bucket = "non_matching" THEN Append(non_matching_files, file_path)
             ELSE non_matching_files
        /\ failed_to_read_files' =
             IF bucket = "failed"
             THEN Append(failed_to_read_files, FailedEntry(file_path, r.result))
             ELSE failed_to_read_files

\* one iteration of the loop over the files; an error get_creation_date
\* raises leaves process_directory and main
VisitFile ==
    /\ pc = "walk"
    /\ idx <= Len(WalkOf(search_path))
    /\ \E file \in {WalkOf(search_path)[idx]} :
         IF Ignored(file.path)
         THEN /\ idx' = idx + 1
              /\ UNCHANGED <<pc, passed, matching_files, non_matching_files,
                             failed_to_read_files>>
         ELSE \E r \in {get_creation_date(file)} :
                /\ passed' = Append(passed, file.path)
                /\ IF IsRaised(r)
                   THEN /\ pc' = "crashed"
                        /\ UNCHANGED <<idx, matching_files, non_matching_files,
                                       failed_to_read_files>>
                   ELSE /\ pc' = pc
                        /\ idx' = idx + 1
                        /\ Appended(file.path, r)
    /\ UNCHANGED <<arg_file, listing, cwd, args_year, outcome, selected_directories, dir_i,
                   search_path, year, total_files, output_file, written, buffer,
                   size_limits, calls, cwd_before, completed>>

\* after the walk: total_files, and the first report's name
EndWalk ==
    /\ pc = "walk"
    /\ idx > Len(WalkOf(search_path))
    /\ total_files' =
         Len(matching_files) + Len(non_matching_files) + Len(failed_to_read_files)
    /\ output_file' = NonMatchingReport(year)
    /\ pc' = "report"
    /\ UNCHANGED <<arg_file, listing, cwd, args_year, outcome, selected_directories, dir_i,
                   search_path, year, idx, matching_files, non_matching_files,
                   failed_to_read_files, written, buffer, size_limits, passed, calls,
                   cwd_before, completed>>

\* the bucket that goes to output_file
BucketOf(name) ==
    IF name = NonMatchingReport(year) THEN non_matching_files ELSE failed_to_read_files

\* the newest snapshot first, the one before it second
Remember(history, path, snapshot) ==
    LET before == IF Exists(history, path) THEN <<history[path][1]>> ELSE <<>>
    IN  WithFile(history, path, <<snapshot>> \o before)

\* what follows a report: the second report, or the return to main's loop
AfterReport(dir) ==
    IF output_file = NonMatchingReport(year)
    THEN /\ output_file' = FailedReport(year)
         /\ pc' = "report"
         /\ UNCHANGED completed
    ELSE /\ output_file' = output_file
         /\ pc' = "loop"
         /\ completed' = Remember(completed, search_path, Reports(dir, year))

\* a non-empty bucket: open(output_file, "w")
OpenReport ==
    /\ pc = "report"
    /\ Len(BucketOf(output_file)) > 0
    /\ cwd' = OpenForWriting(cwd, output_file)
    /\ written' = 0
    /\ buffer' = <<>>
    /\ pc' = "writing"
    /\ UNCHANGED <<arg_file, listing, args_year, outcome, selected_directories, dir_i,
                   search_path, year, idx, matching_files, non_matching_files,
                   failed_to_read_files, total_files, output_file, size_limits, passed,
                   calls, cwd_before, completed>>

\* one iteration of the loop that writes the bucket: f.write, which leaves the
\* disk as it is; a line the encoder refuses raises UnicodeEncodeError, which
\* ends the with block (the file is closed) and main
WriteEntry ==
    /\ pc = "writing"
    /\ written < Len(BucketOf(output_file))
    /\ LET entry == BucketOf(output_file)[written + 1]
       IN  IF Encodable(entry)
           THEN /\ buffer' = WriteLine(buffer, entry)
                /\ written' = written + 1
                /\ UNCHANGED <<cwd, pc, size_limits>>
           ELSE /\ \E limit \in size_limits :
                     /\ size_limits' = SameOutcome(size_limits, cwd, output_file,
                                                  buffer, limit)
                     /\ cwd' = Flushed(cwd, output_file, buffer, limit)
                /\ buffer' = <<>>
                /\ pc' = "crashed"
                /\ UNCHANGED written
    /\ UNCHANGED <<arg_file, listing, args_year, outcome, selected_directories, dir_i,
                   search_path, year, idx, matching_files, non_matching_files,
                   failed_to_read_files, total_files, output_file, passed, calls,
                   cwd_before, completed>>

\* the end of the with block: the file is closed and its buffer written to the
\* disk; when the file system accepts only a part of it, that part is on disk
\* and OSError ends main
CloseReport ==
    /\ pc = "writing"
    /\ written = Len(BucketOf(output_file))
    /\ \E limit \in size_limits :
         /\ size_limits' = SameOutcome(size_limits, cwd, output_file, buffer, limit)
         /\ cwd' = Flushed(cwd, output_file, buffer, limit)
         /\ IF FlushFails(cwd, output_file, buffer, limit)
            THEN /\ pc' = "crashed"
                 /\ UNCHANGED <<output_file, completed>>
            ELSE AfterReport(cwd')
    /\ buffer' = <<>>
    /\ UNCHANGED <<arg_file, listing, args_year, outcome, selected_directories, dir_i,
                   search_path, year, idx, matching_files, non_matching_files,
                   failed_to_read_files, total_files, written, passed, calls, cwd_before>>

\* an empty bucket: the report is removed if it exists
RemoveReport ==
    /\ pc = "report"
    /\ Len(BucketOf(output_file)) = 0
    /\ cwd' = RemoveIfExists(cwd, output_file)
    /\ AfterReport(cwd')
    /\ UNCHANGED <<arg_file, listing, args_year, outcome, selected_directories, dir_i,
                   search_path, year, idx, matching_files, non_matching_files,
                   failed_to_read_files, total_files, written, buffer, size_limits, passed,
                   calls, cwd_before>>

\* the run is stopped from outside (KeyboardInterrupt); inside the with block
\* the file is closed on the way out, which writes its buffer to the disk, and
\* a failure of that write (OSError) takes the place of the interrupt.  When
\* the interrupt comes after the last f.write, the file may also be closed by
\* its finalizer, which ignores the failure
Interrupt ==
    /\ pc \in {"loop", "walk", "report", "writing"}
    /\ IF pc = "writing"
       THEN \E limit \in size_limits :
               /\ size_limits' = SameOutcome(size_limits, cwd, output_file, buffer, limit)
               /\ cwd' = Flushed(cwd, output_file, buffer, limit)
               /\ pc' \in IF ~FlushFails(cwd, output_file, buffer, limit)
                          THEN {"interrupted"}
                          ELSE IF written = Len(BucketOf(output_file))
                          THEN {"crashed", "interrupted"}
                          ELSE {"crashed"}
       ELSE /\ pc' = "interrupted"
            /\ UNCHANGED <<cwd, size_limits>>
    /\ buffer' = <<>>
    /\ UNCHANGED <<arg_file, listing, args_year, outcome, selected_directories, dir_i,
                   search_path, year, idx, matching_files, non_matching_files,
                   failed_to_read_files, total_files, output_file, written, passed, calls,
                   cwd_before, completed>>

Next ==
    \/ \E y \in YearOptions : Main(y)
    \/ EnterDirectory
    \/ Finish
    \/ VisitFile
    \/ EndWalk
    \/ OpenReport
    \/ WriteEntry
    \/ CloseReport
    \/ RemoveReport
    \/ Interrupt

Spec == Init /\ [][Next]_vars

SingleFileNext == SingleFileMode

SingleFileSpec == SingleFileInit /\ [][SingleFileNext]_vars

(***************************************************************************)
(* Properties                                                              *)
(***************************************************************************)

\* number of entries of a bucket that start with a path
StartsWith(entry, prefix) ==
    Len(prefix) <= Len(entry) /\ SubSeq(entry, 1, Len(prefix)) = prefix
Occurrences(bucket, file_path) ==
    Cardinality({ k \in 1..Len(bucket) : StartsWith(bucket[k], file_path) })

\* a text file holding the given lines
RECURSIVE Lines(_)
Lines(entries) ==
    IF entries = <<>> THEN <<>>
    ELSE Head(entries) \o <<Ord("\n")>> \o Lines(Tail(entries))

\* process_directory has been called and has returned, and main was not stopped since
CallCompleted == pc \in {"loop", "finished"} /\ Len(calls) > 0

\* the walk of the current call is over and total_files is set
WalkDone == pc \in {"report", "writing"} \/ CallCompleted

\* C1: every non-ignored file visited by process_directory is in exactly one
\* bucket, exactly once, and the bucket is the one the table gives for what
\* get_creation_date returned: matching for a valid timestamp of the target
\* year, nonMatching for a valid timestamp of another year and for
\* NO_METADATA, failed (with the result's name) for FAILED_TO_READ and
\* INVALID_TIMESTAMP_FORMAT.
C1_BucketByOutcome ==
    LET walk == WalkOf(search_path)
    IN  \A k \in 1..Len(walk) :
          LET file == walk[k]
              r == get_creation_date(file)
              inMatching == Occurrences(matching_files, file.path)
              inNonMatching == Occurrences(non_matching_files, file.path)
              inFailed == Occurrences(failed_to_read_files, file.path)
          IN  k < idx /\ ~Ignored(file.path) =>
                /\ ~IsRaised(r)
                /\ inMatching + inNonMatching + inFailed = 1
                /\ r.result = VALID_CREATION_TIMESTAMP /\ r.timestamp.year = year
                     => inMatching = 1
                /\ r.result = VALID_CREATION_TIMESTAMP /\ r.timestamp.year # year
                     => inNonMatching = 1
                /\ r.result = NO_METADATA => inNonMatching = 1
                /\ r.result \in {FAILED_TO_READ, INVALID_TIMESTAMP_FORMAT}
                     => \E n \in 1..Len(failed_to_read_files) :
                          failed_to_read_files[n]
                            = file.path \o ErrorCodeText \o ResultNames[r.result]
                                \o <<Ord(")")>>

\* a call that put a file without metadata in nonMatching and a file with an
\* unparsable timestamp in failed
C1_Witness ==
    /\ CallCompleted
    /\ idx = 3
    /\ Len(non_matching_files) = 1
    /\ \E n \in 1..Len(failed_to_read_files) :
         EndsWith(failed_to_read_files[n],
                  ResultNames[INVALID_TIMESTAMP_FORMAT] \o <<Ord(")")>>)

\* one report file against its bucket: there iff the bucket is not empty, and
\* then holding the bucket's entries, one per line, in order
ReportMatches(name, bucket) ==
    /\ Exists(cwd, name) <=> bucket # <<>>
    /\ Exists(cwd, name) => cwd[name] = Utf8(Lines(bucket))

\* C3: when process_directory has completed, each of the two report files of
\* the year exists iff its bucket is non-empty and then holds exactly the
\* bucket's entries, one per line, in the order collected, whatever was there
\* before the run; failed entries read "{path} (error code: {ResultName})".
C3_ReportsMatchBuckets ==
    CallCompleted =>
        /\ ReportMatches(NonMatchingReport(year), non_matching_files)
        /\ ReportMatches(FailedReport(year), failed_to_read_files)
        /\ \A n \in 1..Len(failed_to_read_files) :
             \E k \in 1..Len(WalkOf(search_path)) :
                \E name \in {FAILED_TO_READ, INVALID_TIMESTAMP_FORMAT} :
                   failed_to_read_files[n]
                     = WalkOf(search_path)[k].path
                         \o Text(<<" ", "(", "e", "r", "r", "o", "r", " ",
                                   "c", "o", "d", "e", ":", " ">>)
                         \o ResultNames[name] \o Text(<<")">>)

\* a completed call that removed a stale nonMatching report and overwrote a
\* stale failed report
C3_Witness ==
    /\ CallCompleted
    /\ year = 2020
    /\ Exists(cwd_before, NonMatchingReport(2020))
    /\ Exists(cwd_before, FailedReport(2020))
    /\ ~Exists(cwd, NonMatchingReport(2020))
    /\ Exists(cwd, FailedReport(2020))
    /\ Len(failed_to_read_files) = 2

\* a report file is absent, as it was before the call, or complete
WholeOrUntouched(name, bucket) ==
    \/ ~Exists(cwd, name)
    \/ Exists(cwd_before, name) /\ cwd[name] = cwd_before[name]
    \/ cwd[name] = Utf8(Lines(bucket))

\* C4: no partial output file exists.  Stated for the states in which the run
\* has ended (finished, stopped by an error, or interrupted), which are among
\* the states the claim covers: each report file of the year being processed
\* is absent, unchanged from before the call, or holds its complete bucket.
C4_NoPartialReport ==
    pc \in {"finished", "crashed", "interrupted"} /\ Len(calls) > 0 =>
        /\ WholeOrUntouched(NonMatchingReport(year), non_matching_files)
        /\ WholeOrUntouched(FailedReport(year), failed_to_read_files)

\* C5: two completed calls of process_directory on the same unchanged
\* directory with the same year leave the same report files: the same files
\* present, with the same content.
C5_Idempotent ==
    \A d \in DOMAIN completed :
        Len(completed[d]) = 2 => completed[d][1] = completed[d][2]

\* a second completed call on directory 2020, the first of which started from
\* stale reports and wrote both reports
C5_Witness ==
    /\ Exists(completed, Join(BasePath, Dir2020))
    /\ Len(completed[Join(BasePath, Dir2020)]) = 2
    /\ completed[Join(BasePath, Dir2020)][1].non_matching.exists
    /\ completed[Join(BasePath, Dir2020)][1].failed.exists
    /\ pc = "finished"

\* the files of a walk that do not end in .cr2, by position
NotIgnoredOf(walk) ==
    { k \in 1..Len(walk) :
        LET lowered == Lower(walk[k].path)
        IN  SubSeq(lowered, Len(lowered) - 3, Len(lowered))
              # Text(<<".", "c", "r", "2">>) }
NotIgnored == NotIgnoredOf(WalkOf(search_path))

\* C6: a file whose lowercased path ends in .cr2 is never passed to
\* get_creation_date, is in no bucket and is not counted; once the walk is
\* over every other file of the directory is in a bucket and total_files is
\* their number.
C6_IgnoredExtension ==
    LET walk == WalkOf(search_path)
        kept == NotIgnoredOf(walk)
    IN  /\ \A k \in 1..Len(walk) \ kept :
              /\ \A n \in 1..Len(passed) : passed[n] # walk[k].path
              /\ Occurrences(matching_files, walk[k].path) = 0
              /\ Occurrences(non_matching_files, walk[k].path) = 0
              /\ Occurrences(failed_to_read_files, walk[k].path) = 0
        /\ WalkDone =>
              /\ total_files = Cardinality(kept)
              /\ \A k \in kept :
                   /\ \E n \in 1..Len(passed) : passed[n] = walk[k].path
                   /\ Occurrences(matching_files, walk[k].path)
                        + Occurrences(non_matching_files, walk[k].path)
                        + Occurrences(failed_to_read_files, walk[k].path) = 1

\* a completed walk of a directory holding a .CR2 file and one other file
C6_Witness ==
    /\ WalkDone
    /\ Len(WalkOf(search_path)) = 2
    /\ Cardinality(NotIgnored) = 1
    /\ total_files = 1

\* the call of single-file mode has returned or raised
Called == pc # "idle"

\* date_format parses date_str
Parses(date_str, date_format) == IsDateTime(strptime(date_str, date_format))

\* C7: parsing is first-match-wins over the ordered format list: for a
\* candidate string that reaches the parsing stage, the result is the value
\* of the lowest-numbered format that parses it, and it is
\* INVALID_TIMESTAMP_FORMAT without a timestamp iff no format parses it.
C7_FirstMatchWins ==
    LET c == ExtractCandidate(arg_file)
    IN  Called /\ ~c.early /\ c.date_str.type = "str" =>
          LET matching == { n \in 1..Len(c.date_formats) :
                              Parses(c.date_str, c.date_formats[n]) }
          IN  /\ ~IsRaised(outcome)
              /\ matching = {} <=> outcome = Return(INVALID_TIMESTAMP_FORMAT, None)
              /\ matching # {} =>
                   LET first == CHOOSE n \in matching : \A m \in matching : n <= m
                   IN  outcome = Return(VALID_CREATION_TIMESTAMP,
                                        strptime(c.date_str, c.date_formats[first]))

\* a video whose creation_time is parsed by the third of the four formats only
C7_Witness ==
    LET c == ExtractCandidate(arg_file)
    IN  /\ Called
        /\ ~c.early
        /\ Len(c.date_formats) = 4
        /\ c.date_str.type = "str"
        /\ ~Parses(c.date_str, c.date_formats[1])
        /\ ~Parses(c.date_str, c.date_formats[2])
        /\ Parses(c.date_str, c.date_formats[3])
        /\ outcome.result = VALID_CREATION_TIMESTAMP
        /\ outcome.timestamp.year = 2019

\* C2: get_creation_date never propagates an exception: whatever the file,
\* the decoders' behaviour and the candidate value, the call returns one of
\* the four results.
C2_NeverRaises ==
    Called => ~IsRaised(outcome) /\ outcome.result \in ProcessingResult

\* the file is an image whose metadata is readable and non-empty
ReadableImage(file) ==
    /\ EndsWithAny(Lower(file.path), image_files_with_EXIF_metadata)
    /\ file.image.kind = "returns"
    /\ DOMAIN file.image.value # {}

\* C8: for an image with readable, non-empty metadata, get_creation_date
\* returns NO_METADATA if and only if none of DateTimeOriginal,
\* DateTimeDigitized and DateTime is present, whatever the value of a
\* field that is present.
C8_NoMetadataIffNoField ==
    Called /\ ReadableImage(arg_file) =>
        ((~IsRaised(outcome) /\ outcome.result = NO_METADATA)
           <=> DOMAIN arg_file.image.value \cap DateTags = {})

\* C9: every return of get_creation_date carries a timestamp if and only if
\* its result is VALID_CREATION_TIMESTAMP; the other three results come with
\* None.
C9_TimestampIffValid ==
    pc = "finished" /\ arg_file # NoFile =>
        /\ outcome.result \in ProcessingResult
        /\ outcome.result = VALID_CREATION_TIMESTAMP <=> IsDateTime(outcome.timestamp)
        /\ outcome.result # VALID_CREATION_TIMESTAMP <=> outcome.timestamp = None

\* a return with a parsed timestamp
C9_Witness ==
    /\ pc = "finished"
    /\ arg_file # NoFile
    /\ outcome.result = VALID_CREATION_TIMESTAMP
    /\ outcome.timestamp.year = 2020
    /\ outcome.timestamp.microsecond = 500000

\* the entry of the base path a call of process_directory was made for is a
\* subdirectory with a name of four digits
YearDirectory(call) ==
    LET dirname == Basename(call.search_path)
    IN  /\ Len(dirname) = 4
        /\ \A i \in 1..Len(dirname) : IsDecimal(dirname[i])
        /\ dirname \in DOMAIN listing
        /\ listing[dirname].kind = "dir"

\* C10: in directory mode main calls process_directory for 4-digit-named
\* subdirectories of the base path only, in sorted order, at most once each
\* and, when main has finished, exactly once for each one selected, with the
\* directory's numeric name as the year; other entries of the base path are
\* never passed to process_directory.
C10_OnlyYearDirectories ==
    /\ \A n \in 1..Len(calls) :
         /\ YearDirectory(calls[n])
         /\ calls[n].year = ToInt(Basename(calls[n].search_path))
    /\ \A m, n \in 1..Len(calls) :
         m < n => StrLess(calls[m].search_path, calls[n].search_path)
    /\ pc = "finished" /\ arg_file = NoFile =>
         { calls[n].search_path : n \in 1..Len(calls) }
           = { selected_directories[n] : n \in 1..Len(selected_directories) }

====
